---- MODULE Spec2Model ----
(***************************************************************************)
(* The renaming pass of src/renamer.rs as a state machine.                 *)
(*                                                                         *)
(* The Renamer's fields (uniques, unique_id, errors) are the state.  The   *)
(* recursion of rename / rename_bindings / rename_module_ is an explicit   *)
(* call stack of activation records; the input tree is consumed node by    *)
(* node in the order the code visits it, each node drawn from bounded sets *)
(* at the moment the code destructures it.                                 *)
(***************************************************************************)
EXTENDS Integers, Sequences, FiniteSets, TLC

VARIABLES
    uniques,    \* Renamer.uniques: the scope table, a stack of frames
    unique_id,  \* Renamer.unique_id
    errors,     \* Renamer.errors.errors
    stack,      \* the call stack: one activation record per running call
    modules,    \* the input of rename_modules / rename_module: module names
    ms,         \* names of the modules renamed so far (the collected output)
    outcome,    \* "running", "ok" (returned), "failed" (fail!()), "panic"
    returned,   \* the value handed back to the caller of rename_modules
    ev,         \* what the last step produced (its piece of the output tree)
    mints,      \* history: every uid minted, in order
    ncalls,     \* history: number of make_unique calls
    locals,     \* history: the local binding occurrences of the output
    declared,   \* history: symbols the input declares in two separate groups
    nodes,      \* number of input nodes consumed so far
    entry       \* the entry point that was called

vars == <<uniques, unique_id, errors, stack, modules, ms, outcome, returned,
          ev, mints, ncalls, locals, declared, nodes, entry>>

(***************************************************************************)
(* Bounds of the model.                                                    *)
(***************************************************************************)
\* MaxNodes: the size of the input, counted in modules (of rename_modules),
\* constructors, instances, binding clauses, pattern nodes, case
\* alternatives, do statements and compound expressions; Literal and
\* Identifier expressions are not counted.  Every list of the input is
\* bounded by what is left of it.
MaxModules == 2
MaxNodes == 4

\* The interned strings of the inputs.
Vars == {"a", "b"}
Ctors == {"C", "a"}
ModuleNames == {"M", "a"}
InternedStr == Vars \cup Ctors \cup ModuleNames

RECURSIVE SeqUpTo(_, _)
SeqUpTo(S, n) ==
    IF n <= 0 THEN {<<>>}
    ELSE LET T == SeqUpTo(S, n - 1)
         IN  T \cup {Append(t, x) : t \in {u \in T : Len(u) = n - 1}, x \in S}

Range(s) == {s[i] : i \in 1..Len(s)}

(***************************************************************************)
(* Name, Option.                                                           *)
(***************************************************************************)
Name(s, u) == [name |-> s, uid |-> u]
None == <<>>
Some(v) == <<v>>

(***************************************************************************)
(* ScopedMap: the scope table (its code is outside this file; modelled     *)
(* from the operational contract: frames pushed and popped, insert into    *)
(* the innermost frame, find innermost to outermost).                      *)
(***************************************************************************)
EmptyFrame == [k \in {} |-> Name("", 0)]
ScopedMapNew == <<EmptyFrame>>
enter_scope(m) == Append(m, EmptyFrame)
exit_scope(m) == IF Len(m) = 0 THEN m ELSE SubSeq(m, 1, Len(m) - 1)
in_current_scope(m, k) == Len(m) > 0 /\ k \in DOMAIN m[Len(m)]
insert(m, k, v) ==
    LET f == m[Len(m)]
    IN  [m EXCEPT ![Len(m)] =
            [x \in (DOMAIN f) \cup {k} |-> IF x = k THEN v ELSE f[x]]]

RECURSIVE frame_of(_, _, _)
\* index of the innermost frame among the first i that binds k; 0 if none
frame_of(m, i, k) ==
    IF i = 0 THEN 0
    ELSE IF k \in DOMAIN m[i] THEN i ELSE frame_of(m, i - 1, k)

find(m, k) ==
    LET i == frame_of(m, Len(m), k)
    IN  IF i = 0 THEN None ELSE Some(m[i][k])

\* find_mut(k).unwrap().uid = u
find_mut_set_uid(m, k, u) ==
    LET i == frame_of(m, Len(m), k)
    IN  [m EXCEPT ![i] = [@ EXCEPT ![k] = [@ EXCEPT !.uid = u]]]

(***************************************************************************)
(* binding_groups: maximal runs of consecutive bindings of the same name   *)
(* (its code is outside this file).  bs is the list of the bindings' names;*)
(* the result is the list of the groups, each a list of indices into bs.   *)
(***************************************************************************)
RECURSIVE groups_from(_, _, _)
groups_from(bs, i, acc) ==
    IF i > Len(bs) THEN acc
    ELSE IF acc # <<>> /\ bs[acc[Len(acc)][1]] = bs[i]
         THEN groups_from(bs, i + 1,
                  [acc EXCEPT ![Len(acc)] = Append(@, i)])
         ELSE groups_from(bs, i + 1, Append(acc, <<i>>))

binding_groups(bs) == groups_from(bs, 1, <<>>)

(***************************************************************************)
(* Errors.                                                                 *)
(***************************************************************************)
Diagnostic(name) == [symbol |-> name, text |-> "is defined multiple times"]
has_errors(es) == Len(es) # 0

(***************************************************************************)
(* The Renamer as a value threaded through the operators of one step.      *)
(* calls is the record of the make_unique calls of the step, panic is set  *)
(* when an unwrap()/expect() meets None.                                   *)
(***************************************************************************)
\* Renamer::new, were the counter to start at 0
Renamer_new_from_zero ==
    [uniques |-> ScopedMapNew, unique_id |-> 0, errors |-> <<>>,
     calls |-> <<>>, panic |-> FALSE]

Renamer_new ==
    [uniques |-> ScopedMapNew, unique_id |-> 1, errors |-> <<>>,
     calls |-> <<>>, panic |-> FALSE]

Self ==
    [uniques |-> uniques, unique_id |-> unique_id, errors |-> errors,
     calls |-> <<>>, panic |-> FALSE]

\* get_name, were an unbound symbol to get uid 1
get_name_unbound_one(m, s) ==
    LET f == find(m, s)
    IN  IF f # None THEN Name(s, f[1].uid) ELSE Name(s, 1)

get_name(m, s) ==
    LET f == find(m, s)
    IN  IF f # None THEN Name(s, f[1].uid) ELSE Name(s, 0)

\* make_unique, were it to record no diagnostic on a duplicate
make_unique_silent(R, name) ==
    IF in_current_scope(R.uniques, name)
    THEN [r |-> R, ret |-> find(R.uniques, name)[1]]
    ELSE LET u == Name(name, R.unique_id + 1)
         IN  [r |-> [R EXCEPT !.unique_id = @ + 1,
                              !.uniques = insert(@, name, u)],
              ret |-> u]

\* make_unique, were it not to increment the counter
make_unique_reusing_counter(R, name) ==
    IF in_current_scope(R.uniques, name)
    THEN [r |-> [R EXCEPT !.errors = Append(@, Diagnostic(name))],
          ret |-> find(R.uniques, name)[1]]
    ELSE LET u == Name(name, R.unique_id)
         IN  [r |-> [R EXCEPT !.uniques = insert(@, name, u)], ret |-> u]

\* make_unique, were it to test every frame instead of the innermost
make_unique_any_frame(R, name) ==
    IF find(R.uniques, name) # None
    THEN [r |-> [R EXCEPT !.errors = Append(@, Diagnostic(name))],
          ret |-> find(R.uniques, name)[1]]
    ELSE LET u == Name(name, R.unique_id + 1)
         IN  [r |-> [R EXCEPT !.unique_id = @ + 1,
                              !.uniques = insert(@, name, u)],
              ret |-> u]

\* make_unique, were it to mint and insert after the diagnostic as well
make_unique_overwrites(R, name) ==
    LET u == Name(name, R.unique_id + 1)
        E == IF in_current_scope(R.uniques, name)
             THEN Append(R.errors, Diagnostic(name)) ELSE R.errors
    IN  [r |-> [R EXCEPT !.errors = E, !.unique_id = @ + 1,
                         !.uniques = insert(@, name, u)],
         ret |-> u]

make_unique(R, name) ==
    IF in_current_scope(R.uniques, name)
    THEN LET f == find(R.uniques, name)
         IN  [r |-> [R EXCEPT !.errors = Append(@, Diagnostic(name)),
                              !.panic = @ \/ f = None],
              ret |-> IF f = None THEN Name(name, 0) ELSE f[1]]
    ELSE LET u == Name(name, R.unique_id + 1)
         IN  [r |-> [R EXCEPT !.unique_id = @ + 1,
                              !.uniques = insert(@, name, u)],
              ret |-> u]

\* table m2 is table m with one entry more, k |-> v in the innermost frame
OnlyAdds(m, m2, k, v) ==
    /\ Len(m2) = Len(m)
    /\ \A i \in 1..(Len(m) - 1) : m2[i] = m[i]
    /\ k \notin DOMAIN m[Len(m)]
    /\ DOMAIN m2[Len(m)] = DOMAIN m[Len(m)] \cup {k}
    /\ m2[Len(m)][k] = v
    /\ \A x \in DOMAIN m[Len(m)] : m2[Len(m)][x] = m[Len(m)][x]

\* what was appended to the accumulator old to give new
Appended(old, new) ==
    IF Len(new) >= Len(old) /\ SubSeq(new, 1, Len(old)) = old
    THEN SubSeq(new, Len(old) + 1, Len(new))
    ELSE <<[symbol |-> "", text |-> "accumulator rewritten"]>>

\* A make_unique call, observed: what it was asked, what it answered and
\* what it did to the accumulator, the counter and the scope table (held:
\* the Name the innermost frame held for the symbol before the call; kept:
\* the table is as before; added: the table has one entry more, the Name
\* returned, in the innermost frame; fresh: the Name returned carries the
\* counter, which is one more than before).
observed_make_unique(R, name) ==
    LET res == make_unique(R, name)
        m == R.uniques
    IN  [r |-> [res.r EXCEPT !.calls = Append(@,
                  [sym |-> name,
                   ret |-> res.ret,
                   dup |-> Len(res.r.errors) # Len(R.errors),
                   minted |-> res.r.unique_id # R.unique_id,
                   cur |-> in_current_scope(m, name),
                   outer |-> frame_of(m, Len(m) - 1, name) # 0,
                   held |-> IF in_current_scope(m, name)
                            THEN <<m[Len(m)][name]>> ELSE <<>>,
                   diag |-> Appended(R.errors, res.r.errors),
                   kept |-> res.r.uniques = m,
                   added |-> OnlyAdds(m, res.r.uniques, name, res.ret),
                   fresh |-> /\ res.r.unique_id = R.unique_id + 1
                             /\ res.ret = Name(name, res.r.unique_id)])],
         ret |-> res.ret]

(***************************************************************************)
(* Patterns.  Input: [tag, s, ps] over interned strings; output: the same  *)
(* shape with a Name in place of the string.                               *)
(***************************************************************************)
NoName == Name("", 0)
Pat(tag, s, ps) == [tag |-> tag, s |-> s, ps |-> ps]
LeafPatterns ==
    {Pat("NumberPattern", "", <<>>), Pat("WildCardPattern", "", <<>>)}
    \cup {Pat("IdentifierPattern", x, <<>>) : x \in Vars}
\* the patterns of at most n nodes (a constructor's subpatterns are leaves)
Patterns(n) ==
    IF n <= 0 THEN {}
    ELSE LeafPatterns
         \cup {Pat("ConstructorPattern", c, q) :
                  c \in Ctors, q \in SeqUpTo(LeafPatterns, n - 1)}
Size(p) == 1 + Len(p.ps)

RECURSIVE rename_pattern(_, _)
RECURSIVE rename_patterns(_, _, _)
\* ps.move_iter().map(|p| self.rename_pattern(p)).collect()
rename_patterns(R, ps, acc) ==
    IF ps = <<>> THEN [r |-> R, out |-> acc]
    ELSE LET one == rename_pattern(R, Head(ps))
         IN  rename_patterns(one.r, Tail(ps), Append(acc, one.out))

rename_pattern(R, p) ==
    CASE p.tag = "NumberPattern" -> [r |-> R, out |-> Pat(p.tag, NoName, <<>>)]
      [] p.tag = "ConstructorPattern" ->
            LET ps2 == rename_patterns(R, p.ps, <<>>)
            IN  [r |-> ps2.r, out |-> Pat(p.tag, Name(p.s, 0), ps2.out)]
      [] p.tag = "IdentifierPattern" ->
            LET u == observed_make_unique(R, p.s)
            IN  [r |-> u.r, out |-> Pat(p.tag, u.ret, <<>>)]
      [] p.tag = "WildCardPattern" -> [r |-> R, out |-> Pat(p.tag, NoName, <<>>)]

RECURSIVE constructor_names(_)
RECURSIVE constructor_names_of(_, _)
\* the Names of the ConstructorPatterns of an output pattern
constructor_names(p) ==
    (IF p.tag = "ConstructorPattern" THEN <<p.s>> ELSE <<>>)
    \o constructor_names_of(p.ps, 1)
constructor_names_of(ps, i) ==
    IF i > Len(ps) THEN <<>>
    ELSE constructor_names(ps[i]) \o constructor_names_of(ps, i + 1)

(***************************************************************************)
(* Activation records, events.                                             *)
(***************************************************************************)
\* what every symbol resolves to (the uid get_name gives) under table m
Snapshot(m) == [s \in InternedStr |-> get_name(m, s).uid]
NoSnap == <<>>

\* fn/pc: the function and the place in it; depth0: the frame-stack depth
\* when the call started; sym, bs, glob: its arguments; i, k: its loop
\* counters; saved: the resolution before the scope it has open was entered;
\* base: the resolution when its loop started; seen: the Names its earlier
\* clauses (or, for a Case, its previous alternatives) bound by patterns;
\* lastn: the Name its previous clause got; role: what the caller called it
\* for; reg: the Names the first loop of rename_bindings has registered;
\* outs: the Names in the output it has built so far (of the clauses of
\* a binding list or of the binding lists of a module, of the binders of the
\* statements of a Do block); vis:
\* what was visible to the statements of a Do block, or to the alternatives
\* of a Case, renamed so far; for rename_module_, the Names the scope table
\* held when it was called, and in seen the Names the identifiers of its
\* instance-method bodies that no local binding shadowed have got.
Frame(fn, pc, d) ==
    [fn |-> fn, pc |-> pc, depth0 |-> d, sym |-> "", bs |-> <<>>,
     glob |-> FALSE, i |-> 0, k |-> 0, saved |-> NoSnap, base |-> NoSnap,
     seen |-> {}, lastn |-> <<>>, role |-> "", outs |-> {}, vis |-> {},
     reg |-> {}]

Ev(kind) ==
    [kind |-> kind, sym |-> "", out |-> <<>>, cons |-> <<>>, calls |-> <<>>,
     glob |-> FALSE, first |-> FALSE, saved |-> NoSnap, prior |-> {},
     k |-> 0, prev |-> <<>>, vis |-> {}]

\* what is left of the input size
Budget == MaxNodes - nodes
BindingLists(n) == SeqUpTo(Vars, n)

\* the symbols some two separate (non-consecutive) groups of bs declare
NonConsecutive(bs) ==
    {s \in Vars : \E i, j, l \in 1..Len(bs) :
        i < j /\ j < l /\ bs[i] = s /\ bs[j] # s /\ bs[l] = s}

Top == stack[Len(stack)]
\* the activation record of the caller of the call on top of the stack
Caller == stack[Len(stack) - 1]
\* the Names table m holds
Registered(m) ==
    {m[q[1]][q[2]] : q \in {r \in (1..Len(m)) \X InternedStr :
                                r[2] \in DOMAIN m[r[1]]}}
\* the Name every variable resolves to under the resolution snap
Visible(snap) == {Name(s, snap[s]) : s \in Vars}
Rest == SubSeq(stack, 1, Len(stack) - 1)
Pop == Rest
Replace(t) == Append(Rest, t)
Push(t, child) == Append(Append(Rest, t), child)
At(fn, pc) ==
    outcome = "running" /\ stack # <<>> /\ Top.fn = fn /\ Top.pc = pc

RECURSIVE MintedUids(_, _)
MintedUids(calls, i) ==
    IF i > Len(calls) THEN <<>>
    ELSE (IF calls[i].minted THEN <<calls[i].ret.uid>> ELSE <<>>)
         \o MintedUids(calls, i + 1)

Occurrences(calls) ==
    [i \in 1..Len(calls) |-> [uid |-> calls[i].ret.uid, dup |-> calls[i].dup]]

\* One step of the renamer: R is the Renamer after the step, st the call
\* stack after it, e what it produced, isLocal whether its make_unique calls
\* were for local bindings, cost the input nodes it consumed.
StepCore(R, st, e, isLocal, cost) ==
    /\ nodes + cost <= MaxNodes
    /\ nodes' = nodes + cost
    /\ uniques' = R.uniques
    /\ unique_id' = R.unique_id
    /\ errors' = R.errors
    /\ mints' = mints \o MintedUids(R.calls, 1)
    /\ ncalls' = ncalls + Len(R.calls)
    /\ locals' = IF isLocal THEN locals \o Occurrences(R.calls) ELSE locals
    /\ ev' = [e EXCEPT !.calls = R.calls]
    /\ stack' = IF R.panic THEN <<>> ELSE st
    /\ outcome' = IF R.panic THEN "panic"
                  ELSE IF st = <<>> THEN "ok" ELSE "running"
    /\ UNCHANGED <<modules, returned, entry>>

Step(R, st, e, isLocal, cost) ==
    /\ StepCore(R, st, e, isLocal, cost)
    /\ UNCHANGED <<ms, declared>>

(***************************************************************************)
(* Entry points.                                                           *)
(***************************************************************************)
Init ==
    /\ uniques = Renamer_new.uniques
    /\ unique_id = Renamer_new.unique_id
    /\ errors = Renamer_new.errors
    /\ entry \in {"rename_modules", "rename_module", "rename_expr",
                  "rename_binding"}
    /\ modules \in CASE entry = "rename_modules" ->
                            SeqUpTo(ModuleNames, MaxModules)
                     [] entry = "rename_module" ->
                            {<<m>> : m \in ModuleNames}
                     [] OTHER -> {<<>>}
    /\ stack = <<Frame(entry, "start", 1)>>
    /\ ms = <<>>
    /\ outcome = "running"
    /\ returned = None
    /\ ev = Ev("init")
    /\ mints = <<>>
    /\ ncalls = 0
    /\ locals = <<>>
    /\ declared = {}
    /\ nodes = 0

\* rename_expr: a fresh Renamer, rename the expression
RenameExpr ==
    /\ At("rename_expr", "start")
    /\ Step(Self, Push([Top EXCEPT !.pc = "ret"],
                       Frame("rename", "start", Len(uniques))),
            Ev("call"), FALSE, 0)

\* rename_module: a fresh Renamer, rename_module_ on the module
RenameModule ==
    /\ At("rename_module", "start")
    /\ Step(Self, Push([Top EXCEPT !.pc = "ret"],
                       [Frame("rename_module_", "data", Len(uniques))
                            EXCEPT !.sym = modules[1],
                                   !.vis = Registered(uniques)]),
            Ev("call"), FALSE, 0)

\* the loop of rename_modules, were it to fail at the first module after a
\* diagnostic
RenameModulesNext_fail_fast ==
    /\ At("rename_modules", "start")
    /\ Top.i < Len(modules)
    /\ IF has_errors(errors)
       THEN /\ stack' = <<>> /\ outcome' = "failed" /\ returned' = None
            /\ ev' = Ev("end")
            /\ UNCHANGED <<uniques, unique_id, errors, modules, ms, mints,
                           ncalls, locals, declared, nodes, entry>>
       ELSE Step(Self, Push([Top EXCEPT !.i = @ + 1],
                            [Frame("rename_module_", "data", Len(uniques))
                                 EXCEPT !.sym = modules[Top.i + 1],
                                        !.vis = Registered(uniques)]),
                 Ev("call"), FALSE, 1)

\* the loop of rename_modules, were every module given a new scope table
RenameModulesNext_fresh_table ==
    /\ At("rename_modules", "start")
    /\ Top.i < Len(modules)
    /\ Step([Self EXCEPT !.uniques = ScopedMapNew],
            Push([Top EXCEPT !.i = @ + 1],
                 [Frame("rename_module_", "data", 1)
                      EXCEPT !.sym = modules[Top.i + 1],
                             !.vis = Registered(ScopedMapNew)]),
            Ev("call"), FALSE, 1)

\* rename_modules, the loop: the next module goes through rename_module_
RenameModulesNext ==
    /\ At("rename_modules", "start")
    /\ Top.i < Len(modules)
    /\ Step(Self, Push([Top EXCEPT !.i = @ + 1],
                       [Frame("rename_module_", "data", Len(uniques))
                            EXCEPT !.sym = modules[Top.i + 1],
                                   !.vis = Registered(uniques)]),
            Ev("call"), FALSE, 1)

\* rename_modules, after the loop: fail!() if there are errors, else ms
RenameModulesEnd ==
    /\ At("rename_modules", "start")
    /\ Top.i = Len(modules)
    /\ stack' = <<>>
    /\ IF has_errors(errors)
       THEN outcome' = "failed" /\ returned' = None
       ELSE outcome' = "ok" /\ returned' = Some(ms)
    /\ ev' = Ev("end")
    /\ UNCHANGED <<uniques, unique_id, errors, modules, ms, mints, ncalls,
                   locals, declared, nodes, entry>>

(***************************************************************************)
(* rename_module_.                                                         *)
(***************************************************************************)
\* the data definitions: every constructor becomes Name(c, 0).  The
\* constructors of all data definitions of the module are one list here.
ModuleData ==
    /\ At("rename_module_", "data")
    /\ \E cs \in SeqUpTo(Ctors, Budget) :
         Step(Self, Replace([Top EXCEPT !.pc = "instances"]),
              [Ev("data") EXCEPT
                  !.out = [j \in 1..Len(cs) |-> Name(cs[j], 0)]],
              FALSE, Len(cs))

\* the next instance, were its bindings renamed as a non-global binding list
ModuleInstance_not_global ==
    /\ At("rename_module_", "instances")
    /\ Budget >= 1
    /\ \E bs \in BindingLists(Budget - 1) :
         Step(Self,
              Push([Top EXCEPT !.i = @ + 1],
                   [Frame("rename_bindings", "groups", Len(uniques))
                        EXCEPT !.bs = bs, !.glob = FALSE, !.i = 1,
                               !.role = "instance"]),
              Ev("call"), FALSE, 1 + Len(bs))

\* the next instance: its bindings go through rename_bindings(.., true)
ModuleInstance ==
    /\ At("rename_module_", "instances")
    /\ Budget >= 1
    /\ \E bs \in BindingLists(Budget - 1) :
         Step(Self,
              Push([Top EXCEPT !.i = @ + 1],
                   [Frame("rename_bindings", "groups", Len(uniques))
                        EXCEPT !.bs = bs, !.glob = TRUE, !.i = 1,
                               !.role = "instance"]),
              Ev("call"), FALSE, 1 + Len(bs))

\* the module's bindings, were they renamed as a non-global binding list
ModuleBindings_not_global ==
    /\ At("rename_module_", "instances")
    /\ \E bs \in BindingLists(Budget) :
         /\ StepCore(Self,
              Push([Top EXCEPT !.pc = "name"],
                   [Frame("rename_bindings", "groups", Len(uniques))
                        EXCEPT !.bs = bs, !.glob = FALSE, !.i = 1,
                               !.role = "toplevel"]),
              Ev("call"), FALSE, Len(bs))
         /\ declared' = declared \cup NonConsecutive(bs)
         /\ ms' = ms

\* after the instances: the module's bindings, rename_bindings(.., true)
ModuleBindings ==
    /\ At("rename_module_", "instances")
    /\ \E bs \in BindingLists(Budget) :
         /\ StepCore(Self,
              Push([Top EXCEPT !.pc = "name"],
                   [Frame("rename_bindings", "groups", Len(uniques))
                        EXCEPT !.bs = bs, !.glob = TRUE, !.i = 1,
                               !.role = "toplevel"]),
              Ev("call"), FALSE, Len(bs))
         /\ declared' = declared \cup NonConsecutive(bs)
         /\ ms' = ms

\* the Module literal, were the module's name forced to uid 0 like the
\* bindings' names
ModuleName_demoted ==
    /\ At("rename_module_", "name")
    /\ LET u == observed_make_unique(Self, Top.sym)
           R == [u.r EXCEPT !.uniques = find_mut_set_uid(@, Top.sym, 0)]
       IN  /\ StepCore(R, Pop,
                       [Ev("module_name") EXCEPT !.sym = Top.sym,
                                                  !.out = <<Name(Top.sym, 0)>>],
                       FALSE, 0)
           /\ ms' = Append(ms, Name(Top.sym, 0))
           /\ declared' = declared

\* the Module literal: name: renamer.make_unique(name)
ModuleName ==
    /\ At("rename_module_", "name")
    /\ LET u == observed_make_unique(Self, Top.sym)
       IN  /\ StepCore(u.r, Pop,
                       [Ev("module_name") EXCEPT !.sym = Top.sym,
                                                  !.out = <<u.ret>>],
                       FALSE, 0)
           /\ ms' = Append(ms, u.ret)
           /\ declared' = declared

(***************************************************************************)
(* rename_bindings.                                                        *)
(***************************************************************************)
\* the is_global branch, were it missing
demote_skipped(R, name) == R

\* find_mut(name).unwrap().uid = 0
demote(R, name) ==
    IF find(R.uniques, name) = None
    THEN [R EXCEPT !.panic = TRUE]
    ELSE [R EXCEPT !.uniques = find_mut_set_uid(@, name, 0)]

\* the first loop, were it to stop after the first group
BindingsGroup_first_only ==
    /\ At("rename_bindings", "groups")
    /\ LET g == binding_groups(Top.bs)
       IN  /\ Top.i <= Len(g)
           /\ LET name == Top.bs[g[Top.i][1]]
                  u == observed_make_unique(Self, name)
                  R == IF Top.glob THEN demote(u.r, name) ELSE u.r
              IN  Step(R,
                       Replace([Top EXCEPT !.pc = "clauses", !.i = 1,
                                          !.base = Snapshot(R.uniques),
                                          !.reg = @ \cup
                                              Range(find(R.uniques, name))]),
                       [Ev("group") EXCEPT !.sym = name, !.glob = Top.glob,
                                           !.out = <<u.ret>>,
                                           !.prior = Top.reg,
                                           !.first = (Top.i = 1),
                                           !.k = Len(g[Top.i])],
                       ~Top.glob, 0)

\* one round of the first loop: make_unique on the group's first name, and
\* its uid set to 0 if is_global
BindingsGroup ==
    /\ At("rename_bindings", "groups")
    /\ LET g == binding_groups(Top.bs)
       IN  /\ Top.i <= Len(g)
           /\ LET name == Top.bs[g[Top.i][1]]
                  u == observed_make_unique(Self, name)
                  R == IF Top.glob THEN demote(u.r, name) ELSE u.r
                  last == Top.i = Len(g)
                  t == [Top EXCEPT !.reg = @ \cup Range(find(R.uniques, name))]
              IN  Step(R,
                       Replace(IF last
                               THEN [t EXCEPT !.pc = "clauses", !.i = 1,
                                              !.base = Snapshot(R.uniques)]
                               ELSE [t EXCEPT !.i = @ + 1]),
                       [Ev("group") EXCEPT !.sym = name, !.glob = Top.glob,
                                           !.out = <<u.ret>>,
                                           !.prior = Top.reg,
                                           !.first = (Top.i = 1),
                                           !.k = Len(g[Top.i])],
                       ~Top.glob, 0)

\* one round of the second loop, up to the arguments: the binding's Name is
\* looked up (expect), a scope is entered
BindingsClause ==
    /\ At("rename_bindings", "clauses")
    /\ Top.i <= Len(Top.bs)
    /\ LET name == Top.bs[Top.i]
           n == find(uniques, name)
           R == [Self EXCEPT !.uniques = enter_scope(@),
                             !.panic = (n = None)]
       IN  Step(R,
                Replace([Top EXCEPT !.pc = "args", !.k = 0,
                                    !.saved = Snapshot(uniques),
                                    !.lastn = n,
                                    !.outs = @ \cup Range(n)]),
                [Ev("clause") EXCEPT !.sym = name, !.glob = Top.glob,
                      !.out = n, !.prev = Top.lastn,
                      !.first = (Top.i = 1 \/ Top.bs[Top.i - 1] # name),
                      !.saved = Top.base],
                FALSE, 0)

\* rename_arguments: the next argument pattern
BindingsArg ==
    /\ At("rename_bindings", "args")
    /\ \E p \in Patterns(Budget) :
         LET rp == rename_pattern(Self, p)
             bound == {rp.r.calls[j].ret : j \in 1..Len(rp.r.calls)}
         IN  Step(rp.r,
                  Replace([Top EXCEPT !.k = @ + 1, !.seen = @ \cup bound]),
                  [Ev("arg") EXCEPT !.cons = constructor_names(rp.out),
                                    !.first = (Top.k = 0),
                                    !.prior = Top.seen],
                  TRUE, Size(p))

\* the clause's expression
BindingsBody ==
    /\ At("rename_bindings", "args")
    /\ Step(Self, Push([Top EXCEPT !.pc = "clause_exit"],
                       Frame("rename", "start", Len(uniques))),
            Ev("call"), FALSE, 0)

\* the end of the round, were exit_scope missing
BindingsClauseExit_keeps_scope ==
    /\ At("rename_bindings", "clause_exit")
    /\ Step(Self, Replace([Top EXCEPT !.pc = "clauses", !.i = @ + 1]),
            [Ev("clause_exit") EXCEPT !.saved = Top.saved], FALSE, 0)

\* the end of the round, were exit_scope called twice
BindingsClauseExit_exits_twice ==
    /\ At("rename_bindings", "clause_exit")
    /\ Step([Self EXCEPT !.uniques = exit_scope(exit_scope(@))],
            Replace([Top EXCEPT !.pc = "clauses", !.i = @ + 1]),
            [Ev("clause_exit") EXCEPT !.saved = Top.saved], FALSE, 0)

\* the end of the round: exit_scope
BindingsClauseExit ==
    /\ At("rename_bindings", "clause_exit")
    /\ Step([Self EXCEPT !.uniques = exit_scope(@)],
            Replace([Top EXCEPT !.pc = "clauses", !.i = @ + 1]),
            [Ev("clause_exit") EXCEPT !.saved = Top.saved], FALSE, 0)

\* both loops done: the renamed bindings go to the caller (a Let or a module
\* keeps them as its bindings, a Do block as its renamed DoLet statement)
BindingsReturn ==
    /\ \/ At("rename_bindings", "groups") /\ Top.bs = <<>>
       \/ At("rename_bindings", "clauses") /\ Top.i > Len(Top.bs)
    /\ Step(Self,
            Append(SubSeq(stack, 1, Len(stack) - 2),
                   [Caller EXCEPT
                       !.outs = @ \cup Top.outs,
                       !.vis = @ \cup (IF Top.role = "dolet" /\ Top.bs # <<>>
                                       THEN Visible(Top.base) ELSE {})]),
            Ev("return"), FALSE, 0)

(***************************************************************************)
(* rename: one action per variant of the match, and one per place a        *)
(* variant's code resumes after a nested call.                             *)
(***************************************************************************)
Callee == Frame("rename", "start", Len(uniques))

\* Literal(l) => Literal(l)
RenameLiteral ==
    /\ At("rename", "start")
    /\ Step(Self, Pop, [Ev("literal") EXCEPT !.saved = Top.saved], FALSE, 0)

\* the stack after an Identifier has been renamed to n
Referenced(n) ==
    IF /\ Len(stack) >= 3
       /\ stack[2].fn = "rename_module_" /\ stack[2].pc = "instances"
       /\ frame_of(uniques, Len(uniques), n.name) <= 1
    THEN [Pop EXCEPT ![2] = [@ EXCEPT !.seen = @ \cup {n}]]
    ELSE Pop

\* Identifier(i) => Identifier(self.get_name(i))
RenameIdentifier ==
    /\ At("rename", "start")
    /\ \E s \in Vars :
         Step(Self, Referenced(get_name(uniques, s)),
              [Ev("identifier") EXCEPT !.sym = s,
                                       !.out = <<get_name(uniques, s)>>,
                                       !.saved = Top.saved],
              FALSE, 0)

\* Apply(func, arg): rename(*func) ...
RenameApply ==
    /\ At("rename", "start")
    /\ Step(Self, Push([Top EXCEPT !.pc = "apply_arg"], Callee),
            Ev("call"), FALSE, 1)

\* ... then rename(*arg)
ApplyArg ==
    /\ At("rename", "apply_arg")
    /\ Step(Self, Push([Top EXCEPT !.pc = "ret"], Callee),
            Ev("call"), FALSE, 0)

\* Lambda(arg, body): enter_scope, rename_pattern(arg), rename(*body) ...
RenameLambda ==
    /\ At("rename", "start")
    /\ \E p \in Patterns(Budget - 1) :
         LET rp == rename_pattern([Self EXCEPT !.uniques = enter_scope(@)], p)
         IN  Step(rp.r,
                  Push([Top EXCEPT !.pc = "lambda_exit",
                                   !.saved = Snapshot(uniques)],
                       Frame("rename", "start", Len(rp.r.uniques))),
                  [Ev("lambda") EXCEPT !.cons = constructor_names(rp.out),
                                       !.first = TRUE],
                  TRUE, 1 + Size(p))

\* the end of the Lambda arm, were exit_scope missing
LambdaExit_keeps_scope ==
    /\ At("rename", "lambda_exit")
    /\ Step(Self, Pop, [Ev("lambda_exit") EXCEPT !.saved = Top.saved],
            FALSE, 0)

\* ... then exit_scope
LambdaExit ==
    /\ At("rename", "lambda_exit")
    /\ Step([Self EXCEPT !.uniques = exit_scope(@)], Pop,
            [Ev("lambda_exit") EXCEPT !.saved = Top.saved], FALSE, 0)

\* Let(bindings, expr): enter_scope, rename_bindings(bindings, false) ...
RenameLet ==
    /\ At("rename", "start")
    /\ Budget >= 1
    /\ \E bs \in BindingLists(Budget - 1) :
         LET R == [Self EXCEPT !.uniques = enter_scope(@)]
         IN  Step(R,
                  Push([Top EXCEPT !.pc = "let_body",
                                   !.saved = Snapshot(uniques)],
                       [Frame("rename_bindings", "groups", Len(R.uniques))
                            EXCEPT !.bs = bs, !.glob = FALSE, !.i = 1,
                                   !.role = "let"]),
                  Ev("let"), FALSE, 1 + Len(bs))

\* ... rename(*expr) in the same scope ...
LetBody ==
    /\ At("rename", "let_body")
    /\ Step(Self, Push([Top EXCEPT !.pc = "let_exit"], Callee),
            Ev("call"), FALSE, 0)

\* ... then exit_scope
LetExit ==
    /\ At("rename", "let_exit")
    /\ Step([Self EXCEPT !.uniques = exit_scope(@)], Pop,
            [Ev("let_exit") EXCEPT !.saved = Top.saved, !.prior = Top.outs],
            FALSE, 0)

\* Case(expr, alts): the alternatives are mapped first
RenameCase ==
    /\ At("rename", "start")
    /\ Step(Self, Replace([Top EXCEPT !.pc = "case_alts", !.i = 0,
                                      !.base = Snapshot(uniques)]),
            Ev("case"), FALSE, 1)

\* one alternative: enter_scope, rename_pattern, rename(expression) ...
CaseAlt ==
    /\ At("rename", "case_alts")
    /\ \E p \in Patterns(Budget) :
         LET rp == rename_pattern([Self EXCEPT !.uniques = enter_scope(@)], p)
             bound == {rp.r.calls[j].ret : j \in 1..Len(rp.r.calls)}
         IN  Step(rp.r,
                  Push([Top EXCEPT
                           !.pc = "case_alt_exit", !.i = @ + 1,
                           !.saved = Snapshot(uniques),
                           !.seen = @ \cup bound,
                           !.vis = @ \cup Visible(Snapshot(rp.r.uniques))],
                       Frame("rename", "start", Len(rp.r.uniques))),
                  [Ev("alt") EXCEPT !.cons = constructor_names(rp.out),
                                    !.first = TRUE,
                                    !.prior = Top.seen,
                                    !.vis = Top.vis],
                  TRUE, Size(p))

\* the end of an alternative, were exit_scope missing
CaseAltExit_keeps_scope ==
    /\ At("rename", "case_alt_exit")
    /\ Step(Self, Replace([Top EXCEPT !.pc = "case_alts"]),
            [Ev("alt_exit") EXCEPT !.saved = Top.saved], FALSE, 0)

\* ... then exit_scope
CaseAltExit ==
    /\ At("rename", "case_alt_exit")
    /\ Step([Self EXCEPT !.uniques = exit_scope(@)],
            Replace([Top EXCEPT !.pc = "case_alts"]),
            [Ev("alt_exit") EXCEPT !.saved = Top.saved], FALSE, 0)

\* Case(box self.rename(*expr), ..): the scrutinee, after the alternatives
CaseScrutinee ==
    /\ At("rename", "case_alts")
    /\ Step(Self,
            Push([Top EXCEPT !.pc = "ret"],
                 [Callee EXCEPT !.role = "scrutinee", !.saved = Top.base]),
            Ev("call"), FALSE, 0)

\* Do(bindings, expr): the statements are mapped in order, in the scope
\* the Do expression is in
RenameDo ==
    /\ At("rename", "start")
    /\ Step(Self, Replace([Top EXCEPT !.pc = "do_stmts", !.i = 0,
                                      !.base = Snapshot(uniques)]),
            Ev("do"), FALSE, 1)

\* DoExpr(expr) => DoExpr(self.rename(expr))
DoStmtExpr ==
    /\ At("rename", "do_stmts")
    /\ Step(Self,
            Push([Top EXCEPT !.i = @ + 1,
                             !.vis = @ \cup Visible(Snapshot(uniques))],
                 Callee),
            Ev("call"), FALSE, 1)

\* DoLet(bs) => DoLet(self.rename_bindings(bs, false))
DoStmtLet ==
    /\ At("rename", "do_stmts")
    /\ Budget >= 1
    /\ \E bs \in BindingLists(Budget - 1) :
         Step(Self,
              Push([Top EXCEPT !.i = @ + 1],
                   [Frame("rename_bindings", "groups", Len(uniques))
                        EXCEPT !.bs = bs, !.glob = FALSE, !.i = 1,
                               !.role = "dolet"]),
              Ev("dolet"), FALSE, 1 + Len(bs))

\* the DoBind arm, were the pattern's bindings dropped from the scope table
DoStmtBind_drops_bindings ==
    /\ At("rename", "do_stmts")
    /\ \E p \in Patterns(Budget) :
         LET rp == rename_pattern(Self, p)
             bound == {rp.r.calls[j].ret : j \in 1..Len(rp.r.calls)}
         IN  Step([rp.r EXCEPT !.uniques = uniques],
                  Push([Top EXCEPT
                           !.i = @ + 1,
                           !.outs = @ \cup bound,
                           !.vis = @ \cup Visible(Snapshot(uniques))],
                       [Frame("rename", "start", Len(uniques))
                            EXCEPT !.role = "dobind",
                                   !.saved = Snapshot(uniques)]),
                  [Ev("dobind") EXCEPT !.cons = constructor_names(rp.out),
                                       !.prior = Top.vis],
                  TRUE, Size(p))

\* DoBind(pattern, expr): rename_pattern(node), then rename(expr)
DoStmtBind ==
    /\ At("rename", "do_stmts")
    /\ \E p \in Patterns(Budget) :
         LET rp == rename_pattern(Self, p)
             bound == {rp.r.calls[j].ret : j \in 1..Len(rp.r.calls)}
         IN  Step(rp.r,
                  Push([Top EXCEPT
                           !.i = @ + 1,
                           !.outs = @ \cup bound,
                           !.vis = @ \cup Visible(Snapshot(rp.r.uniques))],
                       [Frame("rename", "start", Len(rp.r.uniques))
                            EXCEPT !.role = "dobind",
                                   !.saved = Snapshot(uniques)]),
                  [Ev("dobind") EXCEPT !.cons = constructor_names(rp.out),
                                       !.prior = Top.vis],
                  TRUE, Size(p))

\* Do(.., box self.rename(*expr)): the trailing expression
DoTail ==
    /\ At("rename", "do_stmts")
    /\ Step(Self,
            Push([Top EXCEPT !.pc = "do_ret"],
                 [Callee EXCEPT !.role = "dotail", !.saved = Top.base]),
            Ev("call"), FALSE, 0)

\* ... and the Do expression is built and returned; no scope is closed
DoReturn ==
    /\ At("rename", "do_ret")
    /\ Step(Self, Pop, [Ev("do_exit") EXCEPT !.saved = Top.base], FALSE, 0)

\* a call whose work is done returns
Return ==
    /\ outcome = "running" /\ stack # <<>> /\ Top.pc = "ret"
    /\ Step(Self, Pop, Ev("return"), FALSE, 0)

(***************************************************************************)
(* rename_binding (no caller in the file; called directly here).           *)
(***************************************************************************)
\* make_unique(name), uid set to 0, enter_scope
RenameBinding ==
    /\ At("rename_binding", "start")
    /\ \E name \in Vars :
         LET u == observed_make_unique(Self, name)
             R == demote(u.r, name)
         IN  Step([R EXCEPT !.uniques = enter_scope(@)],
                  Replace([Top EXCEPT !.pc = "args", !.k = 0, !.sym = name,
                                      !.saved = Snapshot(R.uniques)]),
                  [Ev("binding") EXCEPT !.sym = name, !.glob = TRUE,
                                        !.out = <<Name(name, 0)>>],
                  FALSE, 1)

\* rename_arguments: the next argument pattern
RenameBindingArg ==
    /\ At("rename_binding", "args")
    /\ \E p \in Patterns(Budget) :
         LET rp == rename_pattern(Self, p)
         IN  Step(rp.r, Replace([Top EXCEPT !.k = @ + 1]),
                  [Ev("arg") EXCEPT !.cons = constructor_names(rp.out),
                                    !.first = (Top.k = 0)],
                  TRUE, Size(p))

\* the expression
RenameBindingBody ==
    /\ At("rename_binding", "args")
    /\ Step(Self, Push([Top EXCEPT !.pc = "binding_exit"], Callee),
            Ev("call"), FALSE, 0)

\* exit_scope, return
RenameBindingExit ==
    /\ At("rename_binding", "binding_exit")
    /\ Step([Self EXCEPT !.uniques = exit_scope(@)], Pop,
            [Ev("binding_exit") EXCEPT !.saved = Top.saved], FALSE, 0)

(***************************************************************************)
(* The specification.                                                      *)
(***************************************************************************)
Next ==
    \/ RenameExpr
    \/ RenameModule
    \/ RenameModulesNext
    \/ RenameModulesEnd
    \/ ModuleData
    \/ ModuleInstance
    \/ ModuleBindings
    \/ ModuleName
    \/ BindingsGroup
    \/ BindingsClause
    \/ BindingsArg
    \/ BindingsBody
    \/ BindingsClauseExit
    \/ BindingsReturn
    \/ RenameLiteral
    \/ RenameIdentifier
    \/ RenameApply
    \/ ApplyArg
    \/ RenameLambda
    \/ LambdaExit
    \/ RenameLet
    \/ LetBody
    \/ LetExit
    \/ RenameCase
    \/ CaseAlt
    \/ CaseAltExit
    \/ CaseScrutinee
    \/ RenameDo
    \/ DoStmtExpr
    \/ DoStmtLet
    \/ DoStmtBind
    \/ DoTail
    \/ DoReturn
    \/ Return
    \/ RenameBinding
    \/ RenameBindingArg
    \/ RenameBindingBody
    \/ RenameBindingExit

Spec == Init /\ [][Next]_vars

(***************************************************************************)
(* The claims.                                                             *)
(***************************************************************************)
Calls == {ev.calls[j] : j \in 1..Len(ev.calls)}
ExitKinds == {"lambda_exit", "let_exit", "alt_exit", "clause_exit"}

\* C1: when rename_modules has finished on an input in which some symbol is
\* declared by two non-consecutive top-level binding groups of one module,
\* a 'defined multiple times' diagnostic naming that symbol is recorded and
\* the call has failed: no renamed module list is returned.
C1_DuplicateTopLevelFails ==
    (entry = "rename_modules" /\ outcome # "running" /\ declared # {}) =>
        /\ outcome = "failed"
        /\ returned = None
        /\ \A s \in declared : Diagnostic(s) \in Range(errors)

C1_Witness ==
    /\ entry = "rename_modules"
    /\ outcome = "failed"
    /\ declared # {}

\* C2: rename_modules looks at the accumulator only after every module of
\* the input has been renamed, in input order: when the call is over there
\* is one renamed module per input module, in order; it has failed iff the
\* accumulator is non-empty, and otherwise it returned exactly these modules.
C2_AllModulesThenCheck ==
    (entry = "rename_modules" /\ outcome # "running") =>
        /\ Len(ms) = Len(modules)
        /\ \A j \in 1..Len(ms) : ms[j].name = modules[j]
        /\ (outcome = "failed") <=> has_errors(errors)
        /\ (outcome = "failed") => returned = None
        /\ (outcome # "failed") => (outcome = "ok" /\ returned = Some(ms))

\* a later module is being renamed although a diagnostic is already recorded
C2_Witness ==
    /\ entry = "rename_modules"
    /\ outcome = "running"
    /\ has_errors(errors)
    /\ Len(ms) = 1
    /\ Top.fn = "rename_bindings"
    /\ Len(modules) = 2

\* C3 as stated: any two distinct local binding occurrences of one Renamer
\* lifetime carry different uids.
C3_AllLocalUidsDiffer ==
    \A i, j \in 1..Len(locals) : i # j => locals[i].uid # locals[j].uid

\* C3, amended: any two distinct local binding occurrences whose make_unique
\* call recorded no diagnostic carry different (non-zero) uids; an occurrence
\* whose call recorded a duplicate carries the uid of an earlier local
\* occurrence.
C3_MintedLocalUidsDiffer ==
    /\ \A i, j \in 1..Len(locals) :
          (i # j /\ ~locals[i].dup /\ ~locals[j].dup) =>
              locals[i].uid # locals[j].uid
    /\ \A i \in 1..Len(locals) : ~locals[i].dup => locals[i].uid >= 2
    /\ \A j \in 1..Len(locals) :
          locals[j].dup => \E i \in 1..(j - 1) : locals[i].uid = locals[j].uid

C3_Witness ==
    /\ Len(locals) >= 3
    /\ \E i, j, l \in 1..Len(locals) :
          /\ i < j /\ j < l
          /\ ~locals[i].dup /\ ~locals[j].dup /\ locals[l].dup

\* C4: the name of every top-level and instance-method binding clause, of
\* every data-definition constructor and of every ConstructorPattern has
\* uid 0; the step that renames constructors inserts nothing for them into
\* the scope table (what a symbol resolves to changes only for the symbols
\* the step's make_unique calls minted).
C4_GlobalsHaveUidZero ==
    [][ /\ (ev'.kind = "clause" /\ ev'.glob) =>
              (ev'.out # <<>> /\ ev'.out[1] = Name(ev'.sym, 0))
        /\ ev'.kind = "data" =>
              /\ \A j \in 1..Len(ev'.out) : ev'.out[j].uid = 0
              /\ uniques' = uniques
        /\ \A j \in 1..Len(ev'.cons) : ev'.cons[j].uid = 0
        /\ ev'.cons # <<>> =>
              \A s \in InternedStr :
                  find(uniques', s) # find(uniques, s) =>
                      \E c \in 1..Len(ev'.calls) :
                          ev'.calls[c].sym = s /\ ev'.calls[c].minted
      ]_vars

\* a ConstructorPattern got uid 0 while its symbol is bound with another uid
C4_Witness ==
    \E j \in 1..Len(ev.cons) :
        /\ ev.cons[j].uid = 0
        /\ find(uniques, ev.cons[j].name) # None
        /\ find(uniques, ev.cons[j].name)[1].uid # 0

\* C5: the first uid minted is 2, every later mint is the previous one plus
\* 1 (the counter is 1 plus the number of mints), and every make_unique call
\* either mints or reports a duplicate, never both.
C5_MintSequence ==
    /\ Len(mints) >= 1 => mints[1] = 2
    /\ \A i \in 1..(Len(mints) - 1) : mints[i + 1] = mints[i] + 1
    /\ unique_id = 1 + Len(mints)
    /\ ncalls = Len(mints) + Len(errors)
    /\ \A c \in Calls : c.dup <=> ~c.minted

C5_Witness ==
    /\ Len(mints) >= 2
    /\ \E c \in Calls : c.dup

\* C6: binding a symbol that is bound in an enclosing frame only records no
\* diagnostic and mints; a Lambda pattern, a Case alternative pattern, a
\* clause's first argument and a Let's first group meet an empty frame;
\* after the binding the symbol resolves to the Name the binding got; and
\* when the construct closes, every symbol resolves as before it was opened.
C6_ShadowingAcrossFrames ==
    /\ \A c \in Calls : (~c.cur /\ c.outer) => (~c.dup /\ c.minted)
    /\ (ev.first /\ ev.kind \in {"lambda", "alt", "arg"} /\ ev.calls # <<>>)
          => ~ev.calls[1].cur
    /\ (ev.kind = "group" /\ ~ev.glob /\ Top.role = "let" /\ ev.first)
          => ~ev.calls[1].cur
    /\ (ev.kind \in {"lambda", "alt", "arg"} \/ (ev.kind = "group" /\ ~ev.glob))
          => \A c \in Calls : get_name(uniques, c.sym) = c.ret
    /\ ev.kind \in ExitKinds => Snapshot(uniques) = ev.saved

\* a Let binding shadows a binding of an enclosing frame
C6_Witness ==
    /\ ev.kind = "group"
    /\ Top.role = "let"
    /\ \E c \in Calls : c.outer /\ ~c.cur /\ ~c.dup
                        /\ get_name(uniques, c.sym) = c.ret

\* C7: an Identifier whose symbol is bound in no frame becomes
\* Name(symbol, 0); the scope table, the counter and the accumulator are
\* unchanged by it.
C7_FreeIdentifier ==
    [][ (ev'.kind = "identifier" /\ find(uniques, ev'.sym) = None) =>
            /\ ev'.out = <<Name(ev'.sym, 0)>>
            /\ UNCHANGED <<uniques, unique_id, errors>>
      ]_vars

C7_Witness ==
    /\ ev.kind = "identifier"
    /\ find(uniques, ev.sym) = None
    /\ ev.out = <<Name(ev.sym, 0)>>
    /\ \E s \in Vars : find(uniques, s) # None /\ find(uniques, s)[1].uid # 0

\* the parts of C8 that do not depend on how a group is registered: every
\* clause after the first of its group gets the Name the clause before it
\* got, and the clauses mint nothing for it; every clause starts in an empty
\* frame in which every symbol resolves as when the groups were registered;
\* an argument identifier not yet bound in the clause's frame is minted
\* without a diagnostic and differs from every Name bound by the arguments of
\* the clauses before.
C8_Clauses ==
    /\ ev.kind = "clause" =>
          /\ ev.calls = <<>>
          /\ ev.out # <<>>
          /\ ~ev.first => ev.out = ev.prev
          /\ Snapshot(uniques) = ev.saved
          /\ DOMAIN uniques[Len(uniques)] = {}
    /\ ev.kind = "clause_exit" => Snapshot(uniques) = Top.base
    /\ ev.kind = "arg" =>
          /\ (ev.first /\ ev.calls # <<>>) => ~ev.calls[1].cur
          /\ \A c \in Calls : ~c.cur => (c.minted /\ ~c.dup /\ c.ret \notin ev.prior)

\* C8 as stated: every group of consecutive same-named bindings causes
\* exactly one mint and no diagnostic (and the above).
C8_EveryGroupMintsOnce ==
    /\ ev.kind = "group" =>
          (Len(ev.calls) = 1 /\ ev.calls[1].minted /\ ~ev.calls[1].dup)
    /\ C8_Clauses

\* C8, amended: a group whose symbol is not yet bound in the innermost frame
\* causes exactly one mint and no diagnostic, whatever its number of clauses
\* (a group whose symbol is bound there mints nothing and records one
\* diagnostic); and the above.
C8_GroupSharesOneName ==
    /\ ev.kind = "group" =>
          /\ Len(ev.calls) = 1
          /\ ~ev.calls[1].cur => (ev.calls[1].minted /\ ~ev.calls[1].dup)
          /\ ev.calls[1].cur => (~ev.calls[1].minted /\ ev.calls[1].dup)
    /\ C8_Clauses

\* the second clause of a group binds the argument symbol its first clause
\* bound
C8_Witness ==
    /\ ev.kind = "arg"
    /\ Top.fn = "rename_bindings"
    /\ Top.i >= 2
    /\ Top.bs[Top.i] = Top.bs[Top.i - 1]
    /\ \E c \in Calls : \E n \in ev.prior : n.name = c.sym /\ n # c.ret

\* C9: every call returns with the frame stack at the depth it had when it
\* started, and exit_scope is only called above that depth.
C9_BalancedScopes ==
    [][ /\ (stack # <<>> /\ Len(stack') < Len(stack)) =>
              Len(uniques') = Top.depth0
        /\ (stack # <<>> /\ Len(stack') > Len(stack)) =>
              stack'[Len(stack')].depth0 = Len(uniques')
        /\ (stack # <<>> /\ Len(uniques') < Len(uniques)) =>
              (Len(uniques) > Top.depth0 /\ Len(uniques') = Len(uniques) - 1)
      ]_vars

\* a call has returned after diagnostics were recorded inside it
C9_Witness ==
    /\ ev.kind \in ExitKinds
    /\ has_errors(errors)
    /\ Len(uniques) = 1

\* C10: when the expression of a DoBind statement is about to be renamed,
\* every symbol resolves as it did before the statement (its pattern's
\* identifiers are not bound yet).
C10_DoBindExprBeforePattern ==
    (outcome = "running" /\ stack # <<>> /\ Top.fn = "rename"
        /\ Top.pc = "start" /\ Top.role = "dobind")
      => Snapshot(uniques) = Top.saved

\* C11: a Do block is a scope of its own.  A DoBind pattern or a DoLet group
\* never records a duplicate against a binding that was there when the Do
\* block started (the Name a duplicate returns is never the one the symbol
\* resolved to at the start of the block), and when the Do expression has
\* been renamed every symbol resolves as it did before the block.
C11_DoIsAScope ==
    /\ (stack # <<>> /\ Len(stack) >= 2
          /\ (ev.kind = "dobind" \/ (ev.kind = "group" /\ Top.role = "dolet")))
          => \A c \in Calls : c.dup => c.ret.uid # Caller.base[c.sym]
    /\ ev.kind = "do_exit" => Snapshot(uniques) = ev.saved

\* a DoBind or DoLet statement of the Do block of the caller has just bound
\* names
DoIntroduces ==
    /\ Len(stack) >= 2
    /\ ev.kind = "dobind" \/ (ev.kind = "group" /\ Top.role = "dolet")

\* what was visible to the statements before the one that has just bound
VisibleEarlier == IF ev.kind = "dobind" THEN ev.prior ELSE Caller.vis

\* the part of C12 about later statements: between the statements of a Do
\* block, when its trailing expression is about to be renamed and when it
\* has been renamed, every Name a statement of the block has bound so far is
\* what its symbol resolves to; an identifier that is the expression of a
\* statement or the trailing expression carries the uid of the Name the
\* block bound for its symbol.
C12_VisibleLater ==
    /\ (At("rename", "do_stmts") \/ At("rename", "do_ret")) =>
          /\ \A n \in Top.outs : get_name(uniques, n.name) = n
          /\ ev.kind = "identifier" =>
                \A n \in Top.outs : n.name = ev.sym => ev.out = <<n>>
    /\ (At("rename", "start") /\ Top.role = "dotail") =>
          \A n \in Caller.outs : get_name(uniques, n.name) = n

\* C12 as stated: statements are renamed in order, every Name a DoLet or
\* DoBind statement binds is visible to the later statements and to the
\* trailing expression, and was visible to none of the earlier statements of
\* the block.
C12_VisibleLaterNotEarlier ==
    /\ C12_VisibleLater
    /\ DoIntroduces => \A c \in Calls : c.ret \notin VisibleEarlier

\* C12, amended: ... and every Name a statement mints was visible to none of
\* the earlier statements of the block; a statement mints unless its symbol
\* is already bound in the innermost frame, and then it records a diagnostic
\* and binds nothing new.
C12_MintedVisibleLaterNotEarlier ==
    /\ C12_VisibleLater
    /\ DoIntroduces =>
          \A c \in Calls :
              /\ c.minted => c.ret \notin VisibleEarlier
              /\ c.minted <=> ~c.cur
              /\ c.dup <=> c.cur

\* the trailing expression of a Do block with at least two statements is an
\* identifier that carries the uid a statement of the block minted
C12_Witness ==
    /\ At("rename", "do_ret")
    /\ ev.kind = "identifier"
    /\ Top.i >= 2
    /\ ev.out # <<>> /\ ev.out[1] \in Top.outs
    /\ ev.out[1].uid \in Range(mints)
    /\ ev.out[1] \notin Visible(Top.base)

\* C13: when the scrutinee of a Case is about to be renamed every symbol
\* resolves as it did outside the Case, and to no Name an alternative's
\* pattern bound.  Every alternative starts in an empty frame: the first
\* identifier of its pattern is not bound there, an identifier not bound
\* there is minted without a diagnostic, the Names its pattern binds differ
\* from those the alternatives before bound and were visible to none of
\* them; in its expression a symbol its pattern does not bind resolves as
\* outside the Case, and no symbol resolves to a Name another alternative
\* bound.
C13_CaseScopes ==
    /\ (At("rename", "start") /\ Top.role = "scrutinee") =>
          /\ Snapshot(uniques) = Top.saved
          /\ Top.saved = Caller.base
          /\ \A s \in Vars : get_name(uniques, s) \notin Caller.seen
    /\ (ev.kind = "alt" /\ outcome = "running") =>
          /\ ev.calls # <<>> => ~ev.calls[1].cur
          /\ \A c \in Calls :
                /\ ~c.cur => (c.minted /\ ~c.dup)
                /\ c.ret \notin ev.prior
                /\ c.ret \notin ev.vis
          /\ \A s \in Vars :
                /\ get_name(uniques, s) \notin ev.prior
                /\ (\A c \in Calls : c.sym # s) =>
                      get_name(uniques, s).uid = Caller.base[s]

\* two alternatives bound the symbol of the scrutinee, an identifier, which
\* resolved to neither; no diagnostic was recorded
C13_Witness ==
    /\ At("rename", "ret")
    /\ ev.kind = "identifier"
    /\ errors = <<>>
    /\ ev.out[1] \notin Top.seen
    /\ \E n1, n2 \in Top.seen :
          n1.name = ev.sym /\ n2.name = ev.sym /\ n1.uid # n2.uid

\* the binding list of a Let is being renamed
InLet(pc) == At("rename_bindings", pc) /\ Top.role = "let"

\* C14: in the binding list of a Let no clause is renamed before the first
\* loop is over, and then every binding's name is registered; when a clause
\* starts, every registered Name is what its symbol resolves to, whatever
\* the place of its binding in the list, and the clause gets a registered
\* Name; when the clause's body starts the same holds for every symbol the
\* clause's arguments do not bind; when the body of the Let starts every
\* binding's Name is what its symbol resolves to; after the Let no symbol
\* resolves to a Name of one of its bindings.
C14_LetBindingsSeeEachOther ==
    /\ InLet("groups") => Top.outs = {}
    /\ (InLet("clauses") \/ InLet("args") \/ InLet("clause_exit")) =>
          /\ \A j \in 1..Len(Top.bs) : \E n \in Top.reg : n.name = Top.bs[j]
          /\ \A n, m \in Top.reg : n.name = m.name => n = m
          /\ Top.outs \subseteq Top.reg
    /\ (InLet("clauses") \/ (InLet("args") /\ ev.kind = "clause")) =>
          \A n \in Top.reg : get_name(uniques, n.name) = n
    /\ (At("rename", "start") /\ Caller.fn = "rename_bindings"
          /\ Caller.role = "let") =>
          \A n \in Caller.reg :
              \/ in_current_scope(uniques, n.name)
              \/ get_name(uniques, n.name) = n
    /\ (At("rename", "start") /\ Caller.fn = "rename"
          /\ Caller.pc = "let_exit") =>
          \A n \in Caller.outs : get_name(uniques, n.name) = n
    /\ ev.kind = "let_exit" =>
          \A s \in Vars : get_name(uniques, s) \notin ev.prior

\* the body of the first binding of a Let is an identifier that names the
\* second binding, and carries the uid registered for it
C14_Witness ==
    /\ InLet("clause_exit")
    /\ ev.kind = "identifier"
    /\ Top.i = 1 /\ Len(Top.bs) >= 2
    /\ ev.sym = Top.bs[2] /\ ev.sym # Top.bs[1]
    /\ ev.out[1] \in Top.reg
    /\ ev.out[1].uid >= 2

\* C15: a make_unique call for a symbol bound in the innermost frame appends
\* exactly one diagnostic, naming the symbol, returns the Name that frame
\* holds for the symbol, leaves the counter and the scope table as they
\* were; a call for a symbol not bound in the innermost frame (bound in outer
\* frames only, in particular) appends nothing, increments the counter,
\* returns the symbol with the new counter as uid and adds exactly this entry
\* to the innermost frame.
C15_MakeUniqueFrameEffect ==
    \A c \in Calls :
        /\ c.cur =>
              /\ c.diag = <<Diagnostic(c.sym)>>
              /\ <<c.ret>> = c.held
              /\ ~c.minted
              /\ c.kept
        /\ ~c.cur =>
              /\ c.diag = <<>>
              /\ c.fresh
              /\ c.added

\* one pattern binds an identifier twice: the second call is a duplicate,
\* and it returns the Name the first minted
C15_Witness ==
    /\ ev.kind \in {"arg", "lambda", "alt"}
    /\ Len(ev.calls) >= 2
    /\ ~ev.calls[1].cur /\ ev.calls[1].fresh /\ ev.calls[1].added
    /\ ev.calls[2].cur /\ ev.calls[2].kept
    /\ ev.calls[2].ret = ev.calls[1].ret
    /\ ev.calls[2].diag = <<Diagnostic(ev.calls[1].sym)>>

\* C16: no unwrap() or expect() of the renamer meets None: no call ends in
\* a panic; every clause finds the Name of its binding; the global demotion
\* finds the entry it sets to uid 0; a make_unique call on the duplicate path
\* finds the entry it returns.  The only abrupt end is that of
\* rename_modules, after all its modules, with diagnostics recorded.
C16_LookupsNeverFail ==
    /\ outcome # "panic"
    /\ outcome = "failed" =>
          /\ entry = "rename_modules"
          /\ Len(ms) = Len(modules)
          /\ has_errors(errors)
    /\ ev.kind = "clause" => ev.out # <<>>
    /\ (ev.kind = "group" /\ ev.glob) =>
          find(uniques, ev.sym) = Some(Name(ev.sym, 0))
    /\ \A c \in Calls : c.dup => (c.held # <<>> /\ c.ret = c.held[1])

\* a clause of a top-level group that was reported as a duplicate has found
\* its Name
C16_Witness ==
    /\ outcome = "running"
    /\ ev.kind = "clause" /\ ev.glob
    /\ ev.out = <<Name(ev.sym, 0)>>
    /\ Diagnostic(ev.sym) \in Range(errors)
    /\ Top.i >= 2

\* the symbols of a set of Names
Symbols(ns) == {n.name : n \in ns}

\* C17: under rename_modules no entry ever leaves the top-level frame; the
\* groups of instance and top-level bindings and the module name are
\* registered in that frame; when a module starts the table holds what the
\* modules before left, the names of those modules included; a group of
\* global bindings records a duplicate exactly if its symbol was in the
\* table when its module started or was registered before by its own
\* module.  Under rename_module the table is empty when the module starts,
\* so only the second kind of duplicate exists there.
C17_OneTableAcrossModules ==
    [][ LET top == stack'[Len(stack')]
            caller == stack'[Len(stack') - 1]
        IN  /\ entry = "rename_modules" =>
                  /\ Len(uniques) >= 1 /\ Len(uniques') >= 1
                  /\ DOMAIN uniques[1] \subseteq DOMAIN uniques'[1]
            /\ ((ev'.kind = "group" /\ ev'.glob) \/ ev'.kind = "module_name")
                  => (Len(uniques') = 1 /\ ev'.sym \in DOMAIN uniques'[1])
            /\ (ev'.kind = "call" /\ top.fn = "rename_module_") =>
                  /\ top.vis = Registered(uniques')
                  /\ \A j \in 1..Len(ms') : ms'[j].name \in Symbols(top.vis)
                  /\ entry = "rename_module" => top.vis = {}
            /\ (ev'.kind = "group" /\ ev'.glob /\ outcome' = "running") =>
                  (ev'.calls[1].dup <=>
                      ev'.sym \in Symbols(caller.vis)
                                  \cup Symbols(ev'.prior \cup caller.outs))
      ]_vars

\* the first diagnostic of a rename_modules call is for a top-level group of
\* the second module whose symbol the first module registered and the second
\* had not yet
C17_Witness ==
    /\ entry = "rename_modules"
    /\ outcome = "running"
    /\ ev.kind = "group" /\ ev.glob
    /\ Top.role = "toplevel"
    /\ Len(ms) = 1
    /\ errors = <<Diagnostic(ev.sym)>>
    /\ ev.calls[1].dup
    /\ ev.sym \in Symbols(Caller.vis)
    /\ ev.sym \notin Symbols(ev.prior \cup Caller.outs)

\* what C18 says of every module name and holds of one that is not yet in
\* the top-level frame: the call increments the counter and the Name
\* returned, which goes into the output, carries the new counter, a uid that
\* is not 0 and is greater than every uid minted before; the table keeps
\* that uid.
C18_Fresh(c) ==
    /\ c.fresh /\ c.minted /\ ~c.dup
    /\ c.ret.uid # 0
    /\ \A i \in 1..Len(mints) : mints[i] < c.ret.uid
    /\ find(uniques', c.sym) = Some(c.ret)

\* the module's name is made by one make_unique call, after the module's
\* top-level binding list has returned, and the Name returned is the name of
\* the module in the output
C18_AfterTheBindings ==
    /\ ev.kind = "return"
    /\ stack # <<>> /\ Top.fn = "rename_module_" /\ Top.pc = "name"
    /\ Len(ev'.calls) = 1
    /\ ev'.out = <<ev'.calls[1].ret>>
    /\ ms' = Append(ms, ev'.calls[1].ret)

\* C18 as stated: the name of every module is minted after the module's
\* bindings have been renamed and has a fresh non-zero uid, greater than
\* every uid minted before.
C18_ModuleNameAlwaysFresh ==
    [][ ev'.kind = "module_name" =>
            (C18_AfterTheBindings /\ C18_Fresh(ev'.calls[1])) ]_vars

\* C18, amended: ... of every module whose symbol is not yet bound in the
\* top-level frame; a module whose symbol is bound there (the name of an
\* earlier module, the symbol of a top-level or instance binding) gets the
\* Name bound there, and a diagnostic is recorded.
C18_ModuleNameFreshUnlessBound ==
    [][ ev'.kind = "module_name" =>
            /\ C18_AfterTheBindings
            /\ ~ev'.calls[1].cur => C18_Fresh(ev'.calls[1])
            /\ ev'.calls[1].cur =>
                  /\ ev'.calls[1].dup /\ ~ev'.calls[1].minted
                  /\ <<ev'.calls[1].ret>> = ev'.calls[1].held
                  /\ find(uniques, ev'.sym) = Some(ev'.calls[1].ret)
      ]_vars

\* a module's name has got a fresh uid after two of the module's bindings,
\* which are in the table with uid 0, had been minted
C18_Witness ==
    /\ ev.kind = "module_name"
    /\ ~ev.calls[1].cur /\ ev.calls[1].fresh
    /\ Len(mints) >= 3
    /\ ev.out[1].uid = mints[Len(mints)]
    /\ find(uniques, ev.sym) = Some(ev.out[1])
    /\ \E s \in Vars : find(uniques, s) = Some(Name(s, 0))

\* C19: under rename_module, an identifier in the body of an instance
\* method or of a top-level binding that no local binding shadows becomes
\* Name(symbol, 0); instance-method bodies are renamed while the module's
\* top-level binding list has not started; every top-level binding gets
\* Name(symbol, 0), which is the Name every unshadowed identifier with its
\* symbol got in the instance-method bodies.
C19_ReferenceBeforeRegistration ==
    entry = "rename_module" =>
        /\ (ev.kind = "identifier" /\ Len(stack) >= 3
              /\ stack[3].fn = "rename_bindings" /\ stack[3].glob
              /\ frame_of(uniques, Len(uniques), ev.sym) <= 1)
              => ev.out = <<Name(ev.sym, 0)>>
        /\ (Len(stack) >= 3 /\ stack[3].role = "instance") =>
              (stack[2].pc = "instances" /\ stack[2].i >= 1)
        /\ (Len(stack) >= 3 /\ stack[3].role = "toplevel") =>
              stack[2].pc = "name"
        /\ (ev.kind = "clause" /\ Top.role = "toplevel"
              /\ outcome = "running") =>
              /\ ev.out = <<Name(ev.sym, 0)>>
              /\ \A n \in Caller.seen : n.name = ev.sym => <<n>> = ev.out

\* a top-level binding that is no instance method gets the Name an
\* identifier in an instance-method body got for its symbol
C19_Witness ==
    /\ entry = "rename_module"
    /\ outcome = "running"
    /\ ev.kind = "clause" /\ Top.role = "toplevel"
    /\ ev.sym \notin Symbols(Caller.outs)
    /\ \E n \in Caller.seen : n.name = ev.sym /\ <<n>> = ev.out

\* the binding list of an instance or the top-level binding list of a module
\* is being renamed
InModule == outcome = "running" /\ stack # <<>>
            /\ Top.fn = "rename_bindings"
            /\ Top.role \in {"instance", "toplevel"}

\* C20: the binding lists of the instances and the top-level binding list of
\* a module are renamed in the same frame, the outermost, where every group
\* is registered with uid 0; a group whose symbol a binding list of the same
\* module renamed before (an instance's) has defined is a duplicate: the
\* diagnostic naming it is appended and the Name met is Name(symbol, 0);
\* every clause of these lists gets Name(symbol, 0).
C20_InstancesShareTheFrame ==
    InModule =>
        /\ Top.glob /\ Top.depth0 = 1 /\ Caller.fn = "rename_module_"
        /\ \A n \in Top.outs \cup Top.reg \cup Caller.outs : n.uid = 0
        /\ ev.kind = "group" =>
              /\ Len(uniques) = 1
              /\ ev.sym \in DOMAIN uniques[1]
              /\ uniques[1][ev.sym] = Name(ev.sym, 0)
              /\ ev.sym \in Symbols(Caller.outs) =>
                    /\ ev.calls[1].dup
                    /\ ev.calls[1].held = <<Name(ev.sym, 0)>>
                    /\ errors # <<>>
                    /\ errors[Len(errors)] = Diagnostic(ev.sym)
        /\ ev.kind = "clause" => ev.out = <<Name(ev.sym, 0)>>

\* a top-level binding defines the symbol of a method of an instance of the
\* same module: it is reported, and it gets the method's Name
C20_Witness ==
    /\ InModule
    /\ Top.role = "toplevel"
    /\ ev.kind = "clause"
    /\ Name(ev.sym, 0) \in Caller.outs
    /\ ev.out = <<Name(ev.sym, 0)>>
    /\ errors = <<Diagnostic(ev.sym)>>

====
